---- MODULE Spec2Model ----
(***************************************************************************)
(* Model of src/services/OpenAPIParser.ts: the RefCounter visit tracker,   *)
(* byRef, isRef, resetVisited, exitRef, deref, mergeAllOf and findDerived. *)
(*                                                                         *)
(* Representation of JavaScript values                                     *)
(*  - an object is a function from its own keys (strings) to values; a key *)
(*    whose value is undefined is modelled as an absent key, so            *)
(*    `o.k === undefined` is `k \notin DOMAIN o`;                          *)
(*  - the value undefined, where a whole node is expected, is Undefined;   *)
(*  - a string holding a JSON pointer is the sequence of its tokens: the   *)
(*    fragment marker "#" and then one token per "/segment", so that       *)
(*    "#/components/schemas/A" is <<"#","components","schemas","A">>;      *)
(*  - an array is a sequence.                                              *)
(***************************************************************************)
EXTENDS Integers, Sequences, FiniteSets, TLC

VARIABLES spec, _counter, call

vars == <<spec, _counter, call>>

(* Bounds of the model: the number of nested calls the call stack holds   *)
(* before the engine throws RangeError, and the sum of the counters up to  *)
(* which deref, mergeAllOf and findDerived are still called.               *)
MaxDepth == 7
MaxVisits == 1

(***************************************************************************)
(* JavaScript values.                                                      *)
(***************************************************************************)
Undefined == [undefined |-> TRUE]
EmptyObject == [k \in {} |-> TRUE]
NoRef == <<>>
NoError == "none"

(* null where a pointer string is expected; no pointer has this token *)
Null == <<"null">>

(* o without key k *)
Omit(o, k) == [x \in DOMAIN o \ {k} |-> o[x]]

(* { ...a, ...b }: own keys of both, b's value where both have the key *)
Spread(a, b) == b @@ a

(* Object.assign({}, a, b) / spreading a value that may be undefined *)
Props(o) == IF o = Undefined THEN EmptyObject ELSE o

Ptr(name) == <<"#", "components", "schemas", name>>

(***************************************************************************)
(* RefCounter                                                              *)
(***************************************************************************)
EmptyCounter == [k \in {} |-> 0]

Get(cnt, ref) == IF ref \in DOMAIN cnt THEN cnt[ref] ELSE 0

visitForgets(cnt, ref) == cnt

visit(cnt, ref) == (ref :> (IF Get(cnt, ref) # 0 THEN Get(cnt, ref) + 1 ELSE 1)) @@ cnt

exitUnguarded(cnt, ref) == (ref :> (Get(cnt, ref) - 1)) @@ cnt

(* undefined && x is undefined: an absent key stays without a value; 0 && x is 0 *)
exit(cnt, ref) ==
    IF ref \in DOMAIN cnt
    THEN (ref :> (IF cnt[ref] # 0 THEN cnt[ref] - 1 ELSE cnt[ref])) @@ cnt
    ELSE cnt

visitedAlways(cnt, ref) == Get(cnt, ref) >= 0

visited(cnt, ref) == Get(cnt, ref) # 0

(* RefCounter.reset and new RefCounter() *)
reset == EmptyCounter

(* resetVisited: the development build warns of every key whose counter is *)
(* positive; the tracker is replaced by a new one.                         *)
resetVisitedKeeps(cnt) ==
    [cnt |-> cnt, warned |-> {k \in DOMAIN cnt : cnt[k] > 0}]

resetVisited(cnt) ==
    [cnt |-> reset, warned |-> {k \in DOMAIN cnt : cnt[k] > 0}]

(***************************************************************************)
(* byRef and isRef                                                         *)
(***************************************************************************)
(* decodeURIComponent on one token: "%41" is "A", "%42" is "B"; a "%" that *)
(* is not followed by two hex digits makes it throw URIError.              *)
MalformedToken(tok) == tok \in {"%", "%4"}

DecodeToken(tok) ==
    CASE tok = "%41" -> "A"
      [] tok = "%42" -> "B"
      [] tok = "%43" -> "C"
      [] OTHER -> tok

decodeURIComponent(ref) ==
    IF \E i \in 1..Len(ref) : MalformedToken(ref[i])
    THEN [err |-> "URIError", res |-> ref]
    ELSE [err |-> NoError, res |-> [i \in 1..Len(ref) |-> DecodeToken(ref[i])]]

(* JsonPointer.get: walks the segments after the fragment marker through   *)
(* the document; a missing key fails.                                      *)
RECURSIVE Walk(_, _)
Walk(node, segs) ==
    IF segs = <<>> THEN [err |-> NoError, res |-> node]
    ELSE IF Head(segs) \in DOMAIN node THEN Walk(node[Head(segs)], Tail(segs))
    ELSE [err |-> "NotFound", res |-> Undefined]

JsonPointerGet(doc, ref) ==
    Walk(doc, IF ref # <<>> /\ Head(ref) = "#" THEN Tail(ref) ELSE ref)

(* line 97 *)
WithHash(ref) == IF ref = <<>> \/ Head(ref) # "#" THEN <<"#">> \o ref ELSE ref

(* lines 99-104: a lookup that throws leaves res undefined *)
Caught(got) == IF got.err # NoError THEN [err |-> NoError, res |-> Undefined] ELSE got

(* lines 98-104, decodeURIComponent standing outside the try *)
Lookup(doc, decoded) ==
    IF decoded.err # NoError THEN [err |-> decoded.err, res |-> Undefined]
    ELSE Caught(JsonPointerGet(doc, decoded.res))

byRef(doc, ref) == Lookup(doc, decodeURIComponent(WithHash(ref)))

isRefNullToo(obj) ==
    IF obj = Undefined THEN FALSE
    ELSE "$ref" \in DOMAIN obj

(* lines 110-115 *)
isRef(obj) ==
    IF obj = Undefined THEN FALSE
    ELSE "$ref" \in DOMAIN obj /\ obj["$ref"] # Null

(***************************************************************************)
(* deref: the result, the tracker after the call, the error thrown (if     *)
(* any), the deepest frame reached, and stores: the assignments the call   *)
(* made to fields of objects that existed before it.  A call deeper than   *)
(* MaxDepth frames ends in the engine's RangeError (call stack exceeded).  *)
(***************************************************************************)
Fail(kind, cnt, depth) ==
    [res |-> Undefined, cnt |-> cnt, err |-> kind, depth |-> depth, stores |-> {}]

Return(res, cnt, depth) ==
    [res |-> res, cnt |-> cnt, err |-> NoError, depth |-> depth, stores |-> {}]

(* an assignment of fields to target: to a node that was there before the  *)
(* call, unless target is an object the call has created                   *)
StoresOf(target, fields) ==
    IF target.fresh THEN {} ELSE {[node |-> target.node, fields |-> fields]}

(* r, with the stores made on the way to it *)
AddStores(r, stores) == [r EXCEPT !.stores = @ \cup stores]

AssignTargetResolved(resolved) == [fresh |-> FALSE, node |-> resolved]

(* line 149: the object Object.assign writes to is the new {} *)
AssignTarget(resolved) == [fresh |-> TRUE, node |-> EmptyObject]

(* line 149: Object.assign({}, resolved, { 'x-circular-ref': true }) *)
CircularCopy(resolved) == Spread(Props(resolved), [x \in {"x-circular-ref"} |-> TRUE])

(* line 147 *)
ShortCircuit(seen, forceCircular) == seen /\ ~forceCircular

(* line 153: this.deref(resolved) passes no forceCircular, which defaults to false *)
InnerForceCircular(forceCircular) == FALSE

DerefInnerNoExit(inner, resolved) == inner

(* lines 154-155: exitRef(resolved) and return res, once the inner call has returned *)
DerefInner(inner, resolved) ==
    IF inner.err # NoError THEN inner
    ELSE AddStores(Return(inner.res, exit(inner.cnt, resolved["$ref"]), inner.depth),
                   inner.stores)

RECURSIVE deref(_, _, _, _, _)

(* lines 144-157, looked being what byRef returned *)
DerefRef(doc, ref, looked, forceCircular, cnt, depth) ==
    IF looked.err # NoError THEN Fail(looked.err, cnt, depth)
    ELSE IF ShortCircuit(visited(cnt, ref), forceCircular)
    THEN AddStores(Return(CircularCopy(looked.res), visit(cnt, ref), depth),
                   StoresOf(AssignTarget(looked.res),
                            [x \in {"x-circular-ref"} |-> TRUE]))
    ELSE IF isRef(looked.res)
    THEN DerefInner(deref(doc, looked.res, InnerForceCircular(forceCircular),
                          visit(cnt, ref), depth + 1),
                    looked.res)
    ELSE Return(looked.res, visit(cnt, ref), depth)

deref(doc, obj, forceCircular, cnt, depth) ==
    IF depth > MaxDepth THEN Fail("RangeError", cnt, depth)
    ELSE IF ~isRef(obj) THEN Return(obj, cnt, depth)
    ELSE DerefRef(doc, obj["$ref"], byRef(doc, obj["$ref"]), forceCircular, cnt, depth)

(***************************************************************************)
(* mergeAllOf                                                              *)
(***************************************************************************)
Has(o, k) == k \in DOMAIN o

(* utils/openapi isNamedDefinition and JsonPointer.baseName *)
isNamedDefinition(pointer) ==
    /\ Len(pointer) = 4
    /\ SubSeq(pointer, 1, 3) = <<"#", "components", "schemas">>

baseName(pointer) == pointer[Len(pointer)]

(* lines 177-181: the receiver is a new object, and so is the one line 221 *)
(* replaces it with                                                        *)
ReceiverTarget(schema) == [fresh |-> TRUE, node |-> EmptyObject]

(* lines 177-181: { ...schema, allOf: undefined, parentRefs: [] } *)
NewReceiver(schema) == Spread(Omit(schema, "allOf"), [parentRefs |-> <<>>])

(* line 185: subSchema.$ref || undefined *)
SubRef(subSchema) ==
    IF Has(subSchema, "$ref") /\ subSchema["$ref"] # <<>> /\ subSchema["$ref"] # Null
    THEN subSchema["$ref"] ELSE NoRef

ParentRefsOfNone(subMerged) == <<>>

(* line 187: subMerged.parentRefs || [] *)
ParentRefsOf(subMerged) == IF Has(subMerged, "parentRefs") THEN subMerged.parentRefs ELSE <<>>

TypeConflictUnguarded(receiver, subSchema) ==
    /\ Has(subSchema, "type")
    /\ (~Has(receiver, "type") \/ receiver.type # subSchema.type)

(* lines 195-201 *)
TypeConflict(receiver, subSchema) ==
    /\ Has(receiver, "type")
    /\ Has(subSchema, "type")
    /\ receiver.type # subSchema.type

(* lines 203-205 *)
MergeType(receiver, subSchema) ==
    IF Has(subSchema, "type") THEN Spread(receiver, [type |-> subSchema.type]) ELSE receiver

MergePropertiesReceiverWins(receiver, subSchema) ==
    IF Has(subSchema, "properties")
    THEN Spread(receiver,
                [properties |->
                    Spread(subSchema.properties,
                           IF Has(receiver, "properties") THEN receiver.properties
                           ELSE EmptyObject)])
    ELSE receiver

(* lines 207-213 *)
MergeProperties(receiver, subSchema) ==
    IF Has(subSchema, "properties")
    THEN Spread(receiver,
                [properties |->
                    Spread(IF Has(receiver, "properties") THEN receiver.properties
                           ELSE EmptyObject,
                           subSchema.properties)])
    ELSE receiver

MergeRequiredPrepends(receiver, subSchema) ==
    IF Has(subSchema, "required")
    THEN Spread(receiver,
                [required |->
                    subSchema.required
                        \o (IF Has(receiver, "required") THEN receiver.required ELSE <<>>)])
    ELSE receiver

(* lines 215-217 *)
MergeRequired(receiver, subSchema) ==
    IF Has(subSchema, "required")
    THEN Spread(receiver,
                [required |->
                    (IF Has(receiver, "required") THEN receiver.required ELSE <<>>)
                        \o subSchema.required])
    ELSE receiver

MergeRestBranchWins(receiver, subSchema) == Spread(receiver, subSchema)

(* line 221: receiver = { ...subSchema, ...receiver } *)
MergeRest(receiver, subSchema) == Spread(subSchema, receiver)

(* lines 223-228 *)
AddParent(receiver, subSchemaRef) ==
    IF subSchemaRef # NoRef
    THEN LET pushed == Spread(receiver,
                              [parentRefs |-> Append(receiver.parentRefs, subSchemaRef)])
         IN  IF ~Has(pushed, "title") /\ isNamedDefinition(subSchemaRef)
             THEN Spread(pushed, [title |-> baseName(subSchemaRef)])
             ELSE pushed
    ELSE receiver

(* one turn of the loop of lines 194-229, after the type check *)
FoldBranch(receiver, sub) ==
    AddParent(
        MergeRest(
            MergeRequired(
                MergeProperties(
                    MergeType(receiver, sub.schema),
                    sub.schema),
                sub.schema),
            sub.schema),
        sub.ref)

(* lines 194-229: the receiver after the loop, or the type conflict *)
RECURSIVE Fold(_, _, _)
Fold(receiver, allOfSchemas, i) ==
    IF i > Len(allOfSchemas) THEN [err |-> NoError, receiver |-> receiver]
    ELSE IF TypeConflict(receiver, allOfSchemas[i].schema)
    THEN [err |-> "TypeConflict", receiver |-> receiver]
    ELSE Fold(FoldBranch(receiver, allOfSchemas[i]), allOfSchemas, i + 1)

(* lines 231-234 *)
TopTitle(schema, receiver, ref) ==
    IF ~Has(schema, "title") /\ isNamedDefinition(ref)
    THEN Spread(receiver, [title |-> baseName(ref)])
    ELSE receiver

Max(a, b) == IF a > b THEN a ELSE b

MergeFail(kind, cnt, depth) ==
    [res |-> Undefined, cnt |-> cnt, err |-> kind, depth |-> depth, subs |-> <<>>,
     mapped |-> FALSE, stores |-> {}]

MapFail(kind, acc, cnt, depth) ==
    [err |-> kind, subs |-> acc.subs, parents |-> acc.parents, cnt |-> cnt,
     depth |-> Max(acc.depth, depth), stores |-> {}]

RECURSIVE mergeAllOf(_, _, _, _, _, _)
RECURSIVE MapBranches(_, _, _, _, _, _)

(* lines 186-191, m being what the recursive mergeAllOf returned and dd    *)
(* the deepest frame of the branch's deref                                 *)
MapMerged(doc, allOf, i, forceCircular, acc, depth, dd, m) ==
    IF m.err # NoError THEN AddStores(MapFail(m.err, acc, m.cnt, m.depth), m.stores)
    ELSE AddStores(
             MapBranches(doc, allOf, i + 1, forceCircular,
                         [subs    |-> Append(acc.subs,
                                             [ref |-> SubRef(allOf[i]), schema |-> m.res]),
                          parents |-> acc.parents \o ParentRefsOf(m.res),
                          cnt     |-> m.cnt,
                          depth   |-> Max(acc.depth, Max(dd, m.depth))],
                         depth),
             m.stores)

(* lines 184-186, d being what deref returned *)
MapDerefed(doc, allOf, i, forceCircular, acc, depth, d) ==
    IF d.err # NoError THEN MapFail(d.err, acc, d.cnt, d.depth)
    ELSE AddStores(
             MapMerged(doc, allOf, i, forceCircular, acc, depth, d.depth,
                       mergeAllOf(doc, d.res, SubRef(allOf[i]), forceCircular, d.cnt,
                                  depth + 1)),
             d.stores)

(* lines 183-192: the map over schema.allOf from branch i on; acc holds    *)
(* allOfSchemas so far, what line 187 has pushed, the tracker and the      *)
(* deepest frame reached                                                   *)
MapBranches(doc, allOf, i, forceCircular, acc, depth) ==
    IF i > Len(allOf) THEN MapFail(NoError, acc, acc.cnt, acc.depth)
    ELSE MapDerefed(doc, allOf, i, forceCircular, acc, depth,
                    deref(doc, allOf[i], forceCircular, acc.cnt, depth + 1))

(* lines 231-236, f being the outcome of the loop of lines 194-229 *)
Folded(schema, ref, m, f) ==
    IF f.err # NoError
    THEN [res |-> Undefined, cnt |-> m.cnt, err |-> f.err, depth |-> m.depth,
          subs |-> m.subs, mapped |-> TRUE,
          stores |-> m.stores \cup StoresOf(ReceiverTarget(schema), f.receiver)]
    ELSE [res |-> TopTitle(schema, f.receiver, ref), cnt |-> m.cnt, err |-> NoError,
          depth |-> m.depth, subs |-> m.subs, mapped |-> TRUE,
          stores |-> m.stores
                         \cup StoresOf(ReceiverTarget(schema),
                                       TopTitle(schema, f.receiver, ref))]

(* lines 194-236, m being the outcome of the map *)
Mapped(schema, ref, m) ==
    IF m.err # NoError THEN AddStores(MergeFail(m.err, m.cnt, m.depth), m.stores)
    ELSE Folded(schema, ref, m,
                Fold(Spread(NewReceiver(schema), [parentRefs |-> m.parents]), m.subs, 1))

(* The result, the tracker after the call, the error thrown (if any), the  *)
(* deepest frame reached, allOfSchemas, whether the map finished, and the  *)
(* stores made to objects that existed before the call.                    *)
mergeAllOf(doc, schema, ref, forceCircular, cnt, depth) ==
    IF depth > MaxDepth THEN MergeFail("RangeError", cnt, depth)
    ELSE IF schema = Undefined THEN MergeFail("TypeError", cnt, depth)
    ELSE IF ~Has(schema, "allOf")
    THEN [res |-> schema, cnt |-> cnt, err |-> NoError, depth |-> depth,
          subs |-> <<>>, mapped |-> FALSE, stores |-> {}]
    ELSE Mapped(schema, ref,
                MapBranches(doc, schema.allOf, 1, forceCircular,
                            [subs |-> <<>>, parents |-> <<>>, cnt |-> cnt,
                             depth |-> depth],
                            depth))

(***************************************************************************)
(* findDerived                                                             *)
(***************************************************************************)
Schemas(doc) ==
    IF Has(doc, "components") /\ Has(doc.components, "schemas")
    THEN doc.components.schemas ELSE EmptyObject

(* the keys of the schemas map in the order the for-in loop meets them *)
NameOrder == <<"A", "B", "C">>

DefNames(doc) == SelectSeq(NameOrder, LAMBDA n : n \in DOMAIN Schemas(doc))

IsDerivedAnyRef(def, refs) ==
    /\ Has(def, "allOf")
    /\ \E i \in 1..Len(def.allOf) : Has(def.allOf[i], "$ref")

(* lines 250-251 *)
IsDerived(def, refs) ==
    /\ Has(def, "allOf")
    /\ \E i \in 1..Len(def.allOf) :
          /\ Has(def.allOf[i], "$ref")
          /\ \E j \in 1..Len(refs) : refs[j] = def.allOf[i]["$ref"]

RECURSIVE FindLoop(_, _, _, _, _, _)

(* lines 249-254, d being what deref returned for the definition *)
FindDerefed(doc, names, i, refs, res, d) ==
    IF d.err # NoError
    THEN [res |-> Undefined, cnt |-> d.cnt, err |-> d.err, stores |-> d.stores]
    ELSE IF d.res = Undefined
    THEN [res |-> Undefined, cnt |-> d.cnt, err |-> "TypeError", stores |-> d.stores]
    ELSE AddStores(
             FindLoop(doc, names, i + 1, refs,
                      IF IsDerived(d.res, refs) THEN (Ptr(names[i]) :> names[i]) @@ res
                      ELSE res,
                      d.cnt),
             d.stores)

(* lines 247-255 *)
FindLoop(doc, names, i, refs, res, cnt) ==
    IF i > Len(names) THEN [res |-> res, cnt |-> cnt, err |-> NoError, stores |-> {}]
    ELSE FindDerefed(doc, names, i, refs, res,
                     deref(doc, Schemas(doc)[names[i]], FALSE, cnt, 1))

findDerived(doc, refs, cnt) == FindLoop(doc, DefNames(doc), 1, refs, EmptyObject, cnt)

(***************************************************************************)
(* Documents and inputs                                                    *)
(***************************************************************************)
Ref(pointer) == [x \in {"$ref"} |-> pointer]

(* an inline node whose $ref field is null *)
NullRef == [x \in {"$ref", "description"} |-> IF x = "$ref" THEN Null ELSE "dn"]

(* the same location as Ptr("A"), written without the fragment marker *)
AliasA == <<"components", "schemas", "A">>
(* a pointer whose last segment is the malformed escape "%" *)
BadPtr == <<"#", "components", "schemas", "%">>

L1 == [type |-> "object", properties |-> [a |-> "a1", b |-> "b1"], required |-> <<"a">>,
       description |-> "d1"]
L2 == [type |-> "string", required |-> <<"a", "b">>, format |-> "f2"]
L3 == [properties |-> [b |-> "b3"], required |-> <<"b">>, description |-> "d3",
       format |-> "f3"]
Own == [type |-> "object", properties |-> [a |-> "a0", b |-> "b0"], required |-> <<"a">>,
        format |-> "f0"]

AllOf(own, branches) == Spread(own, [allOf |-> branches])

Document(a, b, c) ==
    [openapi |-> "3.0.0", components |-> [schemas |-> [A |-> a, B |-> b, C |-> c]]]

(* documents whose definitions are references or inline schemas: chains    *)
(* A -> B -> C -> inline, self-cycles, mutual cycles, a missing target     *)
ChainDocs ==
    { Document(a, b, c) :
        a \in {Ref(Ptr("A")), Ref(Ptr("B")), L1},
        b \in {Ref(Ptr("A")), Ref(Ptr("C")), Ref(Ptr("M")), L2},
        c \in {Ref(Ptr("B")), L3} }

(* B is a composition of C and an inline schema, C is inline *)
NestedB == AllOf(EmptyObject, <<Ref(Ptr("C")), L2>>)

(* documents whose definition A has a composition list of two branches,    *)
(* inline or references, with or without fields of its own, or is a        *)
(* reference to a definition that has one                                  *)
MergeDocs ==
    { Document(AllOf(own, <<b1, b2>>), NestedB, L3) :
        own \in {EmptyObject, Own},
        b1 \in {Ref(Ptr("B")), L1, L3},
        b2 \in {Ref(Ptr("B")), Ref(Ptr("C")), L3} }
    \cup { Document(AllOf(EmptyObject, <<L1, Ref(Ptr("B"))>>), L2, L3),
           Document(AllOf(Own, <<Ref(Ptr("B")), Ref(Ptr("C"))>>), L1, L3),
           Document(Ref(Ptr("B")), NestedB, L3) }

(* documents whose composition lists refer back to a definition being      *)
(* merged, to a reference, or to no definition                             *)
CyclicMergeDocs ==
    { Document(AllOf(EmptyObject, <<Ref(Ptr("A"))>>), L1, L3),
      Document(AllOf(EmptyObject, <<Ref(Ptr("B"))>>),
               AllOf(EmptyObject, <<Ref(Ptr("A"))>>), L3),
      Document(AllOf(Own, <<Ref(Ptr("M")), L1>>), L1, L3),
      Document(AllOf(Own, <<Ref(Ptr("B"))>>), Ref(Ptr("B")), L3) }

(* the arguments the operations are called with *)
ByRefArgs == {Ptr("A"), Ptr("M"), AliasA, BadPtr}
ExitArgs == {Ref(Ptr("A")), Ref(Ptr("B")), Ref(Ptr("M")), L1}
DerefArgs ==
    {Ref(Ptr("A")), Ref(Ptr("B")), Ref(Ptr("M")), Ref(AliasA), Ref(BadPtr), L1, NullRef}
FindArgs == {<<Ptr("B")>>, <<Ptr("C"), Ptr("A")>>}

RECURSIVE SumOver(_, _)
SumOver(cnt, keys) ==
    IF keys = {} THEN 0
    ELSE LET k == CHOOSE x \in keys : TRUE
         IN  cnt[k] + SumOver(cnt, keys \ {k})

Total(cnt) == SumOver(cnt, DOMAIN cnt)

MergeArgs(doc) ==
    { [schema |-> Schemas(doc)[n], ref |-> Ptr(n)] : n \in DOMAIN Schemas(doc) \ {"C"} }
        \cup { [schema |-> Schemas(doc)["A"], ref |-> NoRef] }

NoCall ==
    [op |-> "new", obj |-> Undefined, ref |-> NoRef, fc |-> FALSE, refs |-> <<>>,
     pre |-> EmptyCounter, res |-> Undefined, err |-> NoError, depth |-> 0,
     subs |-> <<>>, mapped |-> FALSE, warned |-> {}]

(***************************************************************************)
(* The parser: spec is the document, _counter the tracker's _counter, call *)
(* the last call with its arguments and outcome.                           *)
(***************************************************************************)
Init ==
    /\ spec \in ChainDocs
    /\ _counter = EmptyCounter
    /\ call = NoCall

InitMerge ==
    /\ spec \in MergeDocs \cup CyclicMergeDocs
    /\ _counter = EmptyCounter
    /\ call = NoCall

(* the document once the stores of a call have been made: a node that a    *)
(* store was made to holds the stored fields over its own                  *)
Stored(doc, stores) ==
    IF stores = {} THEN doc
    ELSE [doc EXCEPT !.components.schemas =
            [n \in DOMAIN @ |->
                IF \E s \in stores : s.node = @[n]
                THEN Spread(@[n], (CHOOSE s \in stores : s.node = @[n]).fields)
                ELSE @[n]]]

ByRefReturns(ref, r) ==
    /\ call' = [NoCall EXCEPT !.op = "byRef", !.ref = ref, !.pre = _counter,
                              !.res = r.res, !.err = r.err]
    /\ UNCHANGED <<spec, _counter>>

ByRef(ref) == ByRefReturns(ref, byRef(spec, ref))

ResetReturns(r) ==
    /\ _counter' = r.cnt
    /\ call' = [NoCall EXCEPT !.op = "resetVisited", !.pre = _counter,
                              !.warned = r.warned]
    /\ UNCHANGED spec

ResetVisited == ResetReturns(resetVisited(_counter))

(* lines 132-135 *)
exitRef(cnt, obj) == IF isRef(obj) THEN exit(cnt, obj["$ref"]) ELSE cnt

ExitRef(obj) ==
    /\ _counter' = exitRef(_counter, obj)
    /\ call' = [NoCall EXCEPT !.op = "exitRef", !.obj = obj, !.pre = _counter]
    /\ UNCHANGED spec

DerefReturns(obj, forceCircular, r) ==
    /\ _counter' = r.cnt
    /\ call' = [NoCall EXCEPT !.op = "deref", !.obj = obj, !.fc = forceCircular,
                              !.pre = _counter, !.res = r.res, !.err = r.err,
                              !.depth = r.depth]
    /\ spec' = Stored(spec, r.stores)

Deref(obj, forceCircular) ==
    /\ Total(_counter) <= MaxVisits
    /\ DerefReturns(obj, forceCircular, deref(spec, obj, forceCircular, _counter, 1))

MergeReturns(schema, ref, forceCircular, r) ==
    /\ _counter' = r.cnt
    /\ call' = [NoCall EXCEPT !.op = "mergeAllOf", !.obj = schema, !.ref = ref,
                              !.fc = forceCircular, !.pre = _counter,
                              !.res = r.res, !.err = r.err, !.depth = r.depth,
                              !.subs = r.subs, !.mapped = r.mapped]
    /\ spec' = Stored(spec, r.stores)

MergeAllOf(schema, ref, forceCircular) ==
    /\ Total(_counter) <= MaxVisits
    /\ MergeReturns(schema, ref, forceCircular,
                    mergeAllOf(spec, schema, ref, forceCircular, _counter, 1))

FindReturns(refs, r) ==
    /\ _counter' = r.cnt
    /\ call' = [NoCall EXCEPT !.op = "findDerived", !.refs = refs,
                              !.pre = _counter, !.res = r.res, !.err = r.err]
    /\ spec' = Stored(spec, r.stores)

FindDerived(refs) ==
    /\ Total(_counter) <= MaxVisits
    /\ FindReturns(refs, findDerived(spec, refs, _counter))

Next ==
    \/ \E ref \in ByRefArgs : ByRef(ref)
    \/ ResetVisited
    \/ \E obj \in ExitArgs : ExitRef(obj)
    \/ \E obj \in DerefArgs, fc \in BOOLEAN : Deref(obj, fc)
    \/ \E a \in MergeArgs(spec), fc \in BOOLEAN : MergeAllOf(a.schema, a.ref, fc)
    \/ \E refs \in FindArgs : FindDerived(refs)

Spec == Init /\ [][Next]_vars

SpecMerge == InitMerge /\ [][Next]_vars

(***************************************************************************)
(* Properties                                                              *)
(***************************************************************************)
Marker == "x-circular-ref"

(* every string the documents and the calls use as a pointer *)
RefStrings == {Ptr("A"), Ptr("B"), Ptr("C"), Ptr("M"), AliasA, BadPtr}

(* the node a pointer designates in the document, Undefined if none *)
NodeAt(doc, ref) == byRef(doc, ref).res

(* the pointers met by following references from ref, at most n hops *)
RECURSIVE Chain(_, _, _)
Chain(doc, ref, n) ==
    IF n = 0 \/ ~isRef(NodeAt(doc, ref)) THEN <<ref>>
    ELSE <<ref>> \o Chain(doc, NodeAt(doc, ref)["$ref"], n - 1)

Hops == Cardinality(RefStrings)

(* following references from ref never reaches an inline node *)
Cyclic(doc, ref) == Len(Chain(doc, ref, Hops)) = Hops + 1

(* the last pointer of a chain that ends *)
LastPtr(doc, ref) == Chain(doc, ref, Hops)[Len(Chain(doc, ref, Hops))]

(* following references from ref ends at an inline node of the document *)
EndsInline(doc, ref) == ~Cyclic(doc, ref) /\ NodeAt(doc, LastPtr(doc, ref)) # Undefined

(* the first pointer of the chain that occurs earlier in the chain *)
Revisited(doc, ref) ==
    LET c == Chain(doc, ref, Hops)
        i == CHOOSE i \in 2..Len(c) :
                /\ \E j \in 1..(i - 1) : c[j] = c[i]
                /\ \A k \in 2..(i - 1) : \A j \in 1..(k - 1) : c[j] # c[k]
    IN  c[i]

IsDerefOfRef == call.op = "deref" /\ isRef(call.obj)

FromResetTracker == Total(call.pre) = 0

(* C1: from a reset tracker, deref of a reference whose chain of           *)
(* references forms a cycle returns, within a bounded number of frames and *)
(* without error, a node that carries the circular marker and every field  *)
(* of the node the revisited pointer resolves to.                          *)
C1_CycleIsFlagged ==
    (IsDerefOfRef /\ ~call.fc /\ FromResetTracker /\ Cyclic(spec, call.obj["$ref"]))
    => /\ call.err = NoError
       /\ call.depth <= Hops + 1
       /\ call.res # Undefined
       /\ Has(call.res, Marker) /\ call.res[Marker] = TRUE
       /\ LET target == NodeAt(spec, Revisited(spec, call.obj["$ref"]))
          IN  \A k \in DOMAIN target : Has(call.res, k) /\ call.res[k] = target[k]

(* a mutual cycle has been dereferenced: the revisited pointer resolves to *)
(* a reference to another pointer                                          *)
C1_Witness ==
    /\ IsDerefOfRef /\ ~call.fc /\ FromResetTracker
    /\ Cyclic(spec, call.obj["$ref"])
    /\ call.err = NoError
    /\ Has(call.res, Marker)
    /\ call.res["$ref"] # Revisited(spec, call.obj["$ref"])

(* C2: mergeAllOf with forceCircular=false terminates for every document:  *)
(* it never exhausts the call stack.                                       *)
C2_MergeTerminates ==
    (call.op = "mergeAllOf" /\ ~call.fc) => call.err # "RangeError"

(* C3: from a reset tracker, deref of the head of an acyclic chain of      *)
(* references returns exactly the inline node at the end of the chain,     *)
(* without the circular marker.                                            *)
C3_ChainResolves ==
    (IsDerefOfRef /\ ~call.fc /\ FromResetTracker /\ EndsInline(spec, call.obj["$ref"]))
    => /\ call.err = NoError
       /\ call.res = NodeAt(spec, LastPtr(spec, call.obj["$ref"]))
       /\ ~Has(call.res, Marker)

(* a chain A -> B -> C -> inline has been dereferenced *)
C3_Witness ==
    /\ IsDerefOfRef /\ ~call.fc /\ FromResetTracker
    /\ EndsInline(spec, call.obj["$ref"])
    /\ Len(Chain(spec, call.obj["$ref"], Hops)) = 3
    /\ call.res = L3

(* C4: deref with forceCircular=true of the head of a chain that ends at   *)
(* an inline node returns that node, without the circular marker, whatever *)
(* the tracker holds: a pointer of the chain whose counter is positive     *)
(* does not cut the resolution short.                                      *)
C4_ForceCircularExpands ==
    (IsDerefOfRef /\ call.fc /\ EndsInline(spec, call.obj["$ref"]))
    => /\ call.err = NoError
       /\ call.res = NodeAt(spec, LastPtr(spec, call.obj["$ref"]))
       /\ ~Has(call.res, Marker)

(* C5: deref of a reference whose well-formed pointer resolves to no node  *)
(* returns undefined and raises no error, whatever the tracker holds and   *)
(* for both values of forceCircular.                                       *)
C5_MissingIsUndefined ==
    (/\ IsDerefOfRef
     /\ byRef(spec, call.obj["$ref"]).err = NoError
     /\ NodeAt(spec, call.obj["$ref"]) = Undefined)
    => (call.err = NoError /\ call.res = Undefined)

(* C6: resetVisited raises nothing and leaves no pointer visited, the      *)
(* tracker being that of a newly constructed parser, so that every call    *)
(* returns what it returns on a new parser over the same document.         *)
C6_ResetClears ==
    (call.op = "resetVisited")
    => /\ call.err = NoError
       /\ \A ref \in RefStrings \cup DOMAIN _counter : ~visited(_counter, ref)
       /\ _counter = EmptyCounter
       /\ \A obj \in DerefArgs, fc \in BOOLEAN :
             deref(spec, obj, fc, _counter, 1) = deref(spec, obj, fc, EmptyCounter, 1)

(* resetVisited has run on a tracker that held an unexited reference *)
C6_Witness ==
    /\ call.op = "resetVisited"
    /\ \E ref \in DOMAIN call.pre : call.pre[ref] > 0
    /\ call.warned # {}

(* the last and the first element of a non-empty set of indices *)
Last(S) == CHOOSE i \in S : \A j \in S : j <= i
First(S) == CHOOSE i \in S : \A j \in S : i <= j

(* a mergeAllOf call on a schema with a composition list *)
IsMerge == call.op = "mergeAllOf" /\ call.obj # Undefined /\ Has(call.obj, "allOf")

(* the indices of the merged branches that declare field k *)
Declaring(k) == {i \in 1..Len(call.subs) : Has(call.subs[i].schema, k)}

(* C7: the properties of a merge that does not fail are the shallow union  *)
(* of the schema's own properties and those of the merged branches: each   *)
(* key holds the whole value of the last branch that declares it, or the   *)
(* schema's own value when no branch declares it.                          *)
C7_PropertiesShallowUnion ==
    (IsMerge /\ call.err = NoError)
    => LET own  == IF Has(call.obj, "properties") THEN call.obj.properties ELSE EmptyObject
           of(i) == call.subs[i].schema.properties
           decl == Declaring("properties")
           keys == DOMAIN own \cup UNION {DOMAIN of(i) : i \in decl}
           with(k) == {i \in decl : k \in DOMAIN of(i)}
       IN  /\ Has(call.res, "properties") <=> (Has(call.obj, "properties") \/ decl # {})
           /\ Has(call.res, "properties") =>
                 /\ DOMAIN call.res.properties = keys
                 /\ \A k \in keys :
                       call.res.properties[k] =
                           IF with(k) = {} THEN own[k] ELSE of(Last(with(k)))[k]

(* a key declared by the schema and by both branches, with different       *)
(* values, holds the value of the second branch                            *)
C7_Witness ==
    /\ IsMerge /\ call.err = NoError /\ Len(call.subs) = 2
    /\ Has(call.obj, "properties")
    /\ Declaring("properties") = {1, 2}
    /\ \E k \in DOMAIN call.obj.properties :
          /\ k \in DOMAIN call.subs[1].schema.properties
          /\ k \in DOMAIN call.subs[2].schema.properties
          /\ call.subs[1].schema.properties[k] # call.subs[2].schema.properties[k]
          /\ call.obj.properties[k] # call.subs[2].schema.properties[k]
          /\ call.res.properties[k] = call.subs[2].schema.properties[k]

RECURSIVE RequiredFrom(_, _)
RequiredFrom(subs, i) ==
    IF i > Len(subs) THEN <<>>
    ELSE (IF Has(subs[i].schema, "required") THEN subs[i].schema.required ELSE <<>>)
            \o RequiredFrom(subs, i + 1)

RECURSIVE LenFrom(_, _)
LenFrom(subs, i) ==
    IF i > Len(subs) THEN 0
    ELSE (IF Has(subs[i].schema, "required") THEN Len(subs[i].schema.required) ELSE 0)
            + LenFrom(subs, i + 1)

(* C8: the required list of a merge that does not fail is the schema's own *)
(* list followed by the lists of the merged branches in list order, with   *)
(* duplicates kept; its length is the sum of their lengths.                *)
C8_RequiredConcatenated ==
    (IsMerge /\ call.err = NoError)
    => LET own == IF Has(call.obj, "required") THEN call.obj.required ELSE <<>>
       IN  /\ Has(call.res, "required")
                <=> (Has(call.obj, "required") \/ Declaring("required") # {})
           /\ Has(call.res, "required") =>
                 /\ call.res.required = own \o RequiredFrom(call.subs, 1)
                 /\ Len(call.res.required) = Len(own) + LenFrom(call.subs, 1)

(* a name required by the schema and by a branch occurs twice *)
C8_Witness ==
    /\ IsMerge /\ call.err = NoError
    /\ Has(call.obj, "required") /\ Declaring("required") # {}
    /\ \E i, j \in 1..Len(call.res.required) :
          i < j /\ call.res.required[i] = call.res.required[j]

(* the types the receiver can hold when branch i is folded: that of the    *)
(* last earlier branch declaring one, else the schema's own                *)
HeldBefore(i) ==
    LET earlier == {j \in Declaring("type") : j < i}
    IN  IF earlier # {} THEN {call.subs[Last(earlier)].schema.type}
        ELSE IF Has(call.obj, "type") THEN {call.obj.type}
        ELSE {}

TypesDisagree ==
    \E i \in Declaring("type") :
        HeldBefore(i) # {} /\ call.subs[i].schema.type \notin HeldBefore(i)

DeclaredTypes ==
    (IF Has(call.obj, "type") THEN {call.obj.type} ELSE {})
        \cup {call.subs[i].schema.type : i \in Declaring("type")}

(* C9: once the branches are merged, mergeAllOf fails with a type conflict *)
(* exactly when some branch declares a type other than the one the         *)
(* receiver holds when that branch is folded; otherwise it returns, and    *)
(* the result's type is the one type declared, if any.                     *)
C9_TypeConflictExactly ==
    (IsMerge /\ call.mapped)
    => /\ call.err = "TypeConflict" <=> TypesDisagree
       /\ call.err # "TypeConflict" =>
             /\ call.err = NoError
             /\ Cardinality(DeclaredTypes) <= 1
             /\ Has(call.res, "type") <=> DeclaredTypes # {}
             /\ Has(call.res, "type") => call.res.type \in DeclaredTypes

(* two branches of a schema without a type of its own declare different    *)
(* types and the merge has failed                                          *)
C9_Witness ==
    /\ IsMerge /\ call.mapped
    /\ ~Has(call.obj, "type")
    /\ Cardinality(DeclaredTypes) = 2
    /\ call.err = "TypeConflict"

Classified == {"type", "properties", "required", "title", "allOf", "parentRefs"}

(* C10: every field other than type, properties, required, title, allOf    *)
(* and parentRefs holds, in the result of a merge that does not fail, the  *)
(* schema's own value if the schema declares it, else the value of the     *)
(* first branch whose merged form declares it.                             *)
C10_RestReceiverWins ==
    (IsMerge /\ call.err = NoError)
    => LET fields == (DOMAIN call.obj
                        \cup UNION {DOMAIN call.subs[i].schema : i \in 1..Len(call.subs)})
                     \ Classified
       IN  /\ DOMAIN call.res \ Classified = fields
           /\ \A k \in fields :
                 call.res[k] = IF Has(call.obj, k) THEN call.obj[k]
                               ELSE call.subs[First(Declaring(k))].schema[k]

(* a field the schema declares is also declared, with another value, by a  *)
(* branch, and a field the schema does not declare is declared with        *)
(* different values by both branches                                       *)
C10_Witness ==
    /\ IsMerge /\ call.err = NoError /\ Len(call.subs) = 2
    /\ \E k \in DOMAIN call.obj \ Classified :
          \E i \in Declaring(k) : call.subs[i].schema[k] # call.obj[k]
    /\ \E k \in DOMAIN call.subs[1].schema \ (Classified \cup DOMAIN call.obj) :
          /\ Has(call.subs[2].schema, k)
          /\ call.subs[1].schema[k] # call.subs[2].schema[k]
          /\ call.res[k] = call.subs[1].schema[k]


(* the parentRefs of the merged branches from branch i on, in branch order *)
RECURSIVE NestedParents(_, _)
NestedParents(subs, i) ==
    IF i > Len(subs) THEN <<>>
    ELSE (IF Has(subs[i].schema, "parentRefs") THEN subs[i].schema.parentRefs ELSE <<>>)
             \o NestedParents(subs, i + 1)

(* the pointers of the reference branches of a composition list, in order *)
DirectParents(allOf) ==
    LET refs == SelectSeq(allOf, LAMBDA b : Has(b, "$ref") /\ b["$ref"] # Null)
    IN  [i \in 1..Len(refs) |-> refs[i]["$ref"]]

(* C11: the parentRefs of a merge that does not fail hold, once per        *)
(* occurrence and in branch order, the pointers the nested merges of the   *)
(* branches contributed, followed by the pointer of every reference branch *)
(* of the schema's own list in branch order; an inline branch contributes  *)
(* no pointer of its own, and what a branch's nested merge contributed     *)
(* comes before that branch's pointer.                                     *)
C11_ParentRefsOrdered ==
    (IsMerge /\ call.err = NoError)
    => /\ Has(call.res, "parentRefs")
       /\ Len(call.subs) = Len(call.obj.allOf)
       /\ call.res.parentRefs
              = NestedParents(call.subs, 1) \o DirectParents(call.obj.allOf)
       /\ \A i \in 1..Len(call.subs) :
              (call.subs[i].ref # NoRef /\ Has(call.subs[i].schema, "parentRefs"))
              => \A n \in 1..Len(call.subs[i].schema.parentRefs) :
                    \E p, q \in 1..Len(call.res.parentRefs) :
                        /\ p < q
                        /\ call.res.parentRefs[p] = call.subs[i].schema.parentRefs[n]
                        /\ call.res.parentRefs[q] = call.subs[i].ref

(* a merge of a reference branch that is itself a composition, next to an  *)
(* inline branch: the nested pointer precedes the branch's own             *)
C11_Witness ==
    /\ IsMerge /\ call.err = NoError
    /\ \E i \in 1..Len(call.subs) :
          /\ call.subs[i].ref # NoRef
          /\ Has(call.subs[i].schema, "parentRefs")
          /\ call.subs[i].schema.parentRefs # <<>>
    /\ \E j \in 1..Len(call.obj.allOf) : ~Has(call.obj.allOf[j], "$ref")
    /\ Len(call.res.parentRefs) = 2


(* what deref returns for the definitions from names[i] on, one after the  *)
(* other, d being what it returned for names[i]                            *)
RECURSIVE DerefForms(_, _, _, _)
DerefForms(doc, names, i, d) ==
    <<d.res>> \o
        (IF i = Len(names) THEN <<>>
         ELSE DerefForms(doc, names, i + 1,
                         deref(doc, Schemas(doc)[names[i + 1]], FALSE, d.cnt, 1)))

(* the dereferenced form of every definition during the last findDerived *)
FormOf ==
    LET names == DefNames(spec)
        forms == DerefForms(spec, names, 1,
                            deref(spec, Schemas(spec)[names[1]], FALSE, call.pre, 1))
    IN  [n \in DOMAIN Schemas(spec) |->
            forms[CHOOSE i \in 1..Len(names) : names[i] = n]]

Targets == {call.refs[j] : j \in 1..Len(call.refs)}

(* def has a composition list with a direct reference branch to a target *)
DirectlyDerives(def) ==
    /\ Has(def, "allOf")
    /\ \E i \in 1..Len(def.allOf) :
          Has(def.allOf[i], "$ref") /\ def.allOf[i]["$ref"] \in Targets

IsFind == call.op = "findDerived" /\ call.err = NoError

RepeatsCall ==
    /\ call.op \in {"mergeAllOf", "findDerived"}
    /\ call'.op = call.op
    /\ call'.obj = call.obj /\ call'.ref = call.ref /\ call'.fc = call.fc
    /\ call'.refs = call.refs
    /\ call.err = NoError /\ call'.err = NoError

(* C13: a mergeAllOf or findDerived call that directly follows the same    *)
(* call on the same arguments, with no resetVisited between the two,       *)
(* returns a result equal field for field to the first one's.              *)
C13_RepeatIsEqual == [][RepeatsCall => call'.res = call.res]_vars


(* obj has no $ref field, or one that is null *)
NotReference(obj) == obj # Undefined /\ (~Has(obj, "$ref") \/ obj["$ref"] = Null)

ReturnedAsIs == call.err = NoError /\ call.res = call.obj /\ _counter = call.pre

(* C14: deref of a node that is not a reference returns that node, with    *)
(* forceCircular set or not, and leaves every counter of the tracker as it *)
(* was; mergeAllOf of a schema without a composition list returns that     *)
(* schema and leaves the tracker as it was.                                *)
C14_NonReferenceIsIdentity ==
    /\ (call.op = "deref" /\ NotReference(call.obj)) => ReturnedAsIs
    /\ (call.op = "mergeAllOf" /\ call.obj # Undefined /\ ~Has(call.obj, "allOf"))
       => ReturnedAsIs

(* a node with a null $ref has been dereferenced with forceCircular set    *)
(* while a pointer was visited                                             *)
C14_Witness ==
    /\ call.op = "deref" /\ NotReference(call.obj)
    /\ Has(call.obj, "$ref")
    /\ call.fc
    /\ Total(call.pre) > 0
    /\ call.res = call.obj


(* C15: no call of byRef, deref, exitRef, resetVisited, mergeAllOf or      *)
(* findDerived changes the document: every node keeps its fields and       *)
(* values, and the node a circular copy or a merged schema was built from  *)
(* gains no "x-circular-ref", parentRefs, title, properties or required.   *)
C15_DocumentUnchanged == [][spec' = spec]_vars

(* deref has returned a marked copy of a node of the document, and the     *)
(* node itself carries no marker                                           *)
C15_Witness ==
    /\ IsDerefOfRef /\ call.err = NoError
    /\ Has(call.res, Marker)
    /\ NodeAt(spec, call.obj["$ref"]) # Undefined
    /\ ~Has(NodeAt(spec, call.obj["$ref"]), Marker)
    /\ call.res = CircularCopy(NodeAt(spec, call.obj["$ref"]))


(* every counter but ref's is what it was before the call *)
OthersKept(ref) ==
    \A k \in (DOMAIN _counter \cup DOMAIN call.pre) \ {ref} :
        Get(_counter, k) = Get(call.pre, k)

(* the call made exactly one visit, of ref: deref stopped at the circular  *)
(* copy, or ref resolves to a node that is not a reference                 *)
VisitsOnce(ref) ==
    /\ IsDerefOfRef /\ call.err = NoError
    /\ \/ (Get(call.pre, ref) > 0 /\ ~call.fc)
       \/ ~isRef(NodeAt(spec, ref))

(* C16: no counter of the tracker is ever negative; a visit raises the     *)
(* pointer's counter by one, counting an absent one as 0; an exit lowers a *)
(* positive counter by one and leaves a pointer with an absent or zero     *)
(* counter not visited; a pointer is visited exactly when its counter is   *)
(* positive.                                                               *)
C16_CountersNeverNegative ==
    /\ \A k \in DOMAIN _counter : _counter[k] >= 0
    /\ \A k \in DOMAIN _counter \cup RefStrings :
          visited(_counter, k) <=> Get(_counter, k) > 0
    /\ (call.op = "exitRef" /\ isRef(call.obj))
       => /\ Get(call.pre, call.obj["$ref"]) > 0
             => Get(_counter, call.obj["$ref"]) = Get(call.pre, call.obj["$ref"]) - 1
          /\ Get(call.pre, call.obj["$ref"]) = 0
             => ~visited(_counter, call.obj["$ref"])
          /\ OthersKept(call.obj["$ref"])
    /\ (IsDerefOfRef /\ VisitsOnce(call.obj["$ref"]))
       => /\ Get(_counter, call.obj["$ref"]) = Get(call.pre, call.obj["$ref"]) + 1
          /\ OthersKept(call.obj["$ref"])

(* exitRef has been called on a pointer whose counter had come back to 0 *)
C16_Witness ==
    /\ call.op = "exitRef" /\ isRef(call.obj)
    /\ call.obj["$ref"] \in DOMAIN call.pre
    /\ call.pre[call.obj["$ref"]] = 0
    /\ ~visited(_counter, call.obj["$ref"])


(* the step is exitRef(r), and the call before it was deref(r) for the     *)
(* same reference r                                                        *)
ExitsDerefed ==
    /\ IsDerefOfRef
    /\ call'.op = "exitRef"
    /\ call'.obj = call.obj

(* C17: deref of a reference r followed by exitRef(r) leaves every counter *)
(* of the tracker at the value it had before the deref, whatever the       *)
(* document, the tracker and forceCircular; when deref returns, r's own    *)
(* visit is the only one it has left open.                                 *)
C17_DerefExitRestores ==
    [][ExitsDerefed
       => /\ \A k \in DOMAIN _counter' \cup DOMAIN call.pre :
                Get(_counter', k) = Get(call.pre, k)
          /\ call.err = NoError
             => /\ Get(_counter, call.obj["$ref"])
                       = Get(call.pre, call.obj["$ref"]) + 1
                /\ OthersKept(call.obj["$ref"])]_vars

(* exitRef has closed the visit of a reference whose chain went through    *)
(* another pointer, visited and exited on the way: no counter is positive  *)
C17_Witness ==
    /\ call.op = "exitRef" /\ isRef(call.obj)
    /\ Get(call.pre, call.obj["$ref"]) = 1
    /\ \E k \in DOMAIN call.pre \ {call.obj["$ref"]} : call.pre[k] = 0
    /\ \A k \in DOMAIN _counter : _counter[k] = 0


(* C18: when mergeAllOf or findDerived returns, every counter of the       *)
(* tracker has the value it had before the call.                           *)
C18_MergeFindBalanced ==
    (call.op \in {"mergeAllOf", "findDerived"} /\ call.err = NoError)
    => \A k \in DOMAIN _counter \cup DOMAIN call.pre :
          Get(_counter, k) = Get(call.pre, k)

====
